---- MODULE Spec2Model ----
(***************************************************************************)
(* Layer 2 Ethernet learning switch (src/Switch.h, src/Switch.cpp).        *)
(* The state is the Switch object plus the steady clock it reads, the      *)
(* report the last call printed on the console, and one history variable   *)
(* (movedFrom) that remembers the port named in the last UPDATE line of    *)
(* each address still in the table, and another (agedOut) that remembers   *)
(* the addresses named in AGING OUT lines and not seen as a source since.  *)
(***************************************************************************)
EXTENDS Integers, FiniteSets, Sequences, TLC

\* ---- bounds of the model ----
MaxFrames == 3       \* processFrame calls explored per run
MaxClock == 4        \* steady-clock ticks explored per run
MaxCycle == 1        \* advanceCycle calls explored per run

\* steady_clock ticks per second: the clock is finer than the whole seconds
\* that duration_cast<std::chrono::seconds> keeps
TicksPerSecond == 2

\* the <<ports, timeout>> arguments of the constructor: a one-port switch
\* with aging disabled (timeout 0) and a two-port switch aging after a second
Configs == {<<1, 0>>, <<2, 1>>}

\* the literal compared against in processFrame
BROADCAST == "FF:FF:FF:FF:FF:FF"

\* textual addresses (std::string, compared bytewise) that frames carry as
\* source: a station's address written in upper and in lower case (two
\* different strings) and the broadcast address
SourceMACs == {"AA:AA:AA:AA:AA:AA", "aa:aa:aa:aa:aa:aa", BROADCAST}

\* ... and as destination: the station and the broadcast address
DestMACs == {"AA:AA:AA:AA:AA:AA", BROADCAST}

MACs == SourceMACs \cup DestMACs

\* values of the int incomingPort argument; on the one-port switch the value
\* 2 lies outside [1, numPorts]
PortInputs == {1, 2}

VARIABLES macTable, numPorts, agingTimeout, currentCycle,
          framesProcessed, learningEvents, forwardingEvents, floodingEvents,
          clock, last, movedFrom, agedOut

vars == <<macTable, numPorts, agingTimeout, currentCycle,
          framesProcessed, learningEvents, forwardingEvents, floodingEvents,
          clock, last, movedFrom, agedOut>>

\* struct MACTableEntry { int port; time_point timestamp; }
MACTableEntry(p, t) == [port |-> p, timestamp |-> t]

\* macTable.find(mac) != macTable.end()
isLearned(mac) == mac \in DOMAIN macTable

\* duration_cast<seconds>(now - timestamp).count(): truncates to whole seconds
Elapsed(now, timestamp) == (now - timestamp) \div TicksPerSecond

\* Switch::Switch(int ports, int timeout)
Init ==
    /\ macTable = [m \in {} |-> MACTableEntry(0, 0)]
    /\ \E c \in Configs : numPorts = c[1] /\ agingTimeout = c[2]
    /\ currentCycle = 0
    /\ framesProcessed = 0
    /\ learningEvents = 0
    /\ forwardingEvents = 0
    /\ floodingEvents = 0
    /\ clock = 0
    /\ last = [op |-> "none"]
    /\ movedFrom = [m \in {} |-> 0]
    /\ agedOut = {}

\* faulty variant of the learning phase: a moved address keeps its old port
LearnNoMove(table, sourceMAC, incomingPort, now) ==
    IF sourceMAC \notin DOMAIN table
    THEN [m \in DOMAIN table \cup {sourceMAC} |->
            IF m = sourceMAC THEN MACTableEntry(incomingPort, now) ELSE table[m]]
    ELSE [table EXCEPT ![sourceMAC].timestamp = now]

\* faulty variant of the learning phase: a new address replaces the table
LearnForgets(table, sourceMAC, incomingPort, now) ==
    IF sourceMAC \notin DOMAIN table
    THEN [m \in {sourceMAC} |-> MACTableEntry(incomingPort, now)]
    ELSE IF table[sourceMAC].port # incomingPort
    THEN [table EXCEPT ![sourceMAC] = MACTableEntry(incomingPort, now)]
    ELSE [table EXCEPT ![sourceMAC].timestamp = now]

\* faulty variant of the learning phase: every entry's timestamp is renewed
LearnRefreshAll(table, sourceMAC, incomingPort, now) ==
    [m \in DOMAIN table \cup {sourceMAC} |->
        IF m = sourceMAC THEN MACTableEntry(incomingPort, now)
        ELSE MACTableEntry(table[m].port, now)]

\* faulty variant of the learning phase: a known address on its known port
\* is left untouched
LearnNoRefresh(table, sourceMAC, incomingPort, now) ==
    IF sourceMAC \notin DOMAIN table
    THEN [m \in DOMAIN table \cup {sourceMAC} |->
            IF m = sourceMAC THEN MACTableEntry(incomingPort, now) ELSE table[m]]
    ELSE IF table[sourceMAC].port # incomingPort
    THEN [table EXCEPT ![sourceMAC] = MACTableEntry(incomingPort, now)]
    ELSE table

\* faulty variant of the learning phase: a move keeps the old timestamp
LearnMoveKeepsTime(table, sourceMAC, incomingPort, now) ==
    IF sourceMAC \notin DOMAIN table
    THEN [m \in DOMAIN table \cup {sourceMAC} |->
            IF m = sourceMAC THEN MACTableEntry(incomingPort, now) ELSE table[m]]
    ELSE IF table[sourceMAC].port # incomingPort
    THEN [table EXCEPT ![sourceMAC].port = incomingPort]
    ELSE [table EXCEPT ![sourceMAC].timestamp = now]

\* Step 1 of processFrame: the table after the learning phase
Learn(table, sourceMAC, incomingPort, now) ==
    IF sourceMAC \notin DOMAIN table
    THEN [m \in DOMAIN table \cup {sourceMAC} |->
            IF m = sourceMAC THEN MACTableEntry(incomingPort, now) ELSE table[m]]
    ELSE IF table[sourceMAC].port # incomingPort
    THEN [table EXCEPT ![sourceMAC] = MACTableEntry(incomingPort, now)]
    ELSE [table EXCEPT ![sourceMAC].timestamp = now]

\* which branch of the learning phase ran (LEARNING / UPDATE / REFRESH line)
LearnOutcome(table, sourceMAC, incomingPort) ==
    IF sourceMAC \notin DOMAIN table THEN "New"
    ELSE IF table[sourceMAC].port # incomingPort THEN "Moved"
    ELSE "Refreshed"

\* learningEvents++ sits in the new-address branch only
LearnCount(outcome) == IF outcome = "New" THEN 1 ELSE 0

\* faulty variants of the forwarding decision
\* ... an unknown unicast destination is dropped instead of flooded
DecideDropUnknown(table, destMAC, incomingPort) ==
    IF destMAC = BROADCAST THEN <<"Flood", incomingPort>>
    ELSE IF destMAC \in DOMAIN table
    THEN IF table[destMAC].port = incomingPort
         THEN <<"Drop">>
         ELSE <<"Deliver", table[destMAC].port>>
    ELSE <<"Drop">>

\* ... a known unicast destination is flooded instead of forwarded
DecideNeverForward(table, destMAC, incomingPort) ==
    IF destMAC = BROADCAST THEN <<"Flood", incomingPort>>
    ELSE IF destMAC \in DOMAIN table
    THEN IF table[destMAC].port = incomingPort
         THEN <<"Drop">>
         ELSE <<"Flood", incomingPort>>
    ELSE <<"Flood", incomingPort>>

\* ... the table is consulted before the broadcast test
DecideLookupFirst(table, destMAC, incomingPort) ==
    IF destMAC \in DOMAIN table
    THEN IF table[destMAC].port = incomingPort
         THEN <<"Drop">>
         ELSE <<"Deliver", table[destMAC].port>>
    ELSE <<"Flood", incomingPort>>

\* faulty variant of the forwarding decision: an entry older than the aging
\* timeout is treated as unknown although no sweep has removed it
DecideSkipsStale(table, destMAC, incomingPort) ==
    IF destMAC = BROADCAST THEN <<"Flood", incomingPort>>
    ELSE IF /\ destMAC \in DOMAIN table
            /\ ~(/\ agingTimeout > 0
                 /\ Elapsed(clock, table[destMAC].timestamp) > agingTimeout)
    THEN IF table[destMAC].port = incomingPort
         THEN <<"Drop">>
         ELSE <<"Deliver", table[destMAC].port>>
    ELSE <<"Flood", incomingPort>>

\* ... the same-segment test is missing
DecideNoFilter(table, destMAC, incomingPort) ==
    IF destMAC = BROADCAST THEN <<"Flood", incomingPort>>
    ELSE IF destMAC \in DOMAIN table
    THEN <<"Deliver", table[destMAC].port>>
    ELSE <<"Flood", incomingPort>>

\* Step 2 of processFrame: the forwarding decision on the table after learning
Decide(table, destMAC, incomingPort) ==
    IF destMAC = BROADCAST THEN <<"Flood", incomingPort>>
    ELSE IF destMAC \in DOMAIN table
    THEN IF table[destMAC].port = incomingPort
         THEN <<"Drop">>
         ELSE <<"Deliver", table[destMAC].port>>
    ELSE <<"Flood", incomingPort>>

\* faulty variant of the forwarding count: counted as soon as the destination
\* is found, before the same-port test
ForwardCountKnown(act) == IF act[1] \in {"Deliver", "Drop"} THEN 1 ELSE 0

\* forwardingEvents++ sits in the FORWARDING branch only
ForwardCount(act) == IF act[1] = "Deliver" THEN 1 ELSE 0

\* floodingEvents++ sits in the BROADCAST and the UNKNOWN UNICAST branch
FloodCount(act) == IF act[1] = "Flood" THEN 1 ELSE 0

\* history of the UPDATE line: "<mac> moved from Port <old> to Port <new>"
RecordMove(moves, table, sourceMAC, outcome) ==
    IF outcome = "Moved"
    THEN [m \in DOMAIN moves \cup {sourceMAC} |->
            IF m = sourceMAC THEN table[sourceMAC].port ELSE moves[m]]
    ELSE moves

\* faulty variant of processFrame: the destination lookup refreshes the
\* timestamp of the entry it finds
processFrameRefreshesDest(sourceMAC, destMAC, incomingPort) ==
    /\ framesProcessed < MaxFrames
    /\ LET outcome == LearnOutcome(macTable, sourceMAC, incomingPort)
           learned == Learn(macTable, sourceMAC, incomingPort, clock)
           act == Decide(learned, destMAC, incomingPort)
       IN /\ framesProcessed' = framesProcessed + 1
          /\ macTable' = IF destMAC # BROADCAST /\ destMAC \in DOMAIN learned
                         THEN [learned EXCEPT ![destMAC].timestamp = clock]
                         ELSE learned
          /\ learningEvents' = learningEvents + LearnCount(outcome)
          /\ forwardingEvents' = forwardingEvents + ForwardCount(act)
          /\ floodingEvents' = floodingEvents + FloodCount(act)
          /\ last' = [op |-> "processFrame", sourceMAC |-> sourceMAC,
                      destMAC |-> destMAC, incomingPort |-> incomingPort,
                      outcome |-> outcome, action |-> act]
          /\ movedFrom' = RecordMove(movedFrom, macTable, sourceMAC, outcome)
          /\ agedOut' = agedOut \ {sourceMAC}
    /\ UNCHANGED <<numPorts, agingTimeout, currentCycle, clock>>

\* void Switch::processFrame(sourceMAC, destMAC, incomingPort)
processFrame(sourceMAC, destMAC, incomingPort) ==
    /\ framesProcessed < MaxFrames
    /\ LET outcome == LearnOutcome(macTable, sourceMAC, incomingPort)
           learned == Learn(macTable, sourceMAC, incomingPort, clock)
           act == Decide(learned, destMAC, incomingPort)
       IN /\ framesProcessed' = framesProcessed + 1
          /\ macTable' = learned
          /\ learningEvents' = learningEvents + LearnCount(outcome)
          /\ forwardingEvents' = forwardingEvents + ForwardCount(act)
          /\ floodingEvents' = floodingEvents + FloodCount(act)
          /\ last' = [op |-> "processFrame", sourceMAC |-> sourceMAC,
                      destMAC |-> destMAC, incomingPort |-> incomingPort,
                      outcome |-> outcome, action |-> act]
          /\ movedFrom' = RecordMove(movedFrom, macTable, sourceMAC, outcome)
          /\ agedOut' = agedOut \ {sourceMAC}
    /\ UNCHANGED <<numPorts, agingTimeout, currentCycle, clock>>

\* faulty variant of the aging test: an entry exactly at the timeout is erased
ExpiredAtTimeout(table, now, timeout) ==
    {m \in DOMAIN table : Elapsed(now, table[m].timestamp) >= timeout}

\* the entries cleanupTable erases
Expired(table, now, timeout) ==
    {m \in DOMAIN table : Elapsed(now, table[m].timestamp) > timeout}

\* faulty variant of cleanupTable: the aging-disabled test is missing
cleanupTableAlwaysAges ==
    /\ LET gone == Expired(macTable, clock, agingTimeout)
       IN /\ macTable' = [m \in DOMAIN macTable \ gone |-> macTable[m]]
          /\ movedFrom' = [m \in DOMAIN movedFrom \ gone |-> movedFrom[m]]
          /\ agedOut' = agedOut \cup gone
          /\ last' = [op |-> "cleanupTable", removed |-> gone]
    /\ UNCHANGED <<numPorts, agingTimeout, currentCycle, clock,
                   framesProcessed, learningEvents, forwardingEvents, floodingEvents>>

\* faulty variant of cleanupTable: aged entries are reported but not erased
cleanupTableKeepsEntries ==
    /\ IF agingTimeout <= 0
       THEN /\ agedOut' = agedOut
            /\ last' = [op |-> "cleanupTable", removed |-> {}]
       ELSE LET gone == Expired(macTable, clock, agingTimeout)
            IN /\ agedOut' = agedOut \cup gone
               /\ last' = [op |-> "cleanupTable", removed |-> gone]
    /\ UNCHANGED <<macTable, movedFrom, numPorts, agingTimeout, currentCycle, clock,
                   framesProcessed, learningEvents, forwardingEvents, floodingEvents>>

\* faulty variant of cleanupTable: the entries removed are taken off
\* learningEvents
cleanupTableUncounts ==
    /\ IF agingTimeout <= 0
       THEN /\ macTable' = macTable
            /\ movedFrom' = movedFrom
            /\ agedOut' = agedOut
            /\ learningEvents' = learningEvents
            /\ last' = [op |-> "cleanupTable", removed |-> {}]
       ELSE LET gone == Expired(macTable, clock, agingTimeout)
            IN /\ macTable' = [m \in DOMAIN macTable \ gone |-> macTable[m]]
               /\ movedFrom' = [m \in DOMAIN movedFrom \ gone |-> movedFrom[m]]
               /\ agedOut' = agedOut \cup gone
               /\ learningEvents' = learningEvents - Cardinality(gone)
               /\ last' = [op |-> "cleanupTable", removed |-> gone]
    /\ UNCHANGED <<numPorts, agingTimeout, currentCycle, clock,
                   framesProcessed, forwardingEvents, floodingEvents>>

\* void Switch::cleanupTable()
cleanupTable ==
    /\ IF agingTimeout <= 0
       THEN /\ macTable' = macTable
            /\ movedFrom' = movedFrom
            /\ agedOut' = agedOut
            /\ last' = [op |-> "cleanupTable", removed |-> {}]
       ELSE LET gone == Expired(macTable, clock, agingTimeout)
            IN /\ macTable' = [m \in DOMAIN macTable \ gone |-> macTable[m]]
               /\ movedFrom' = [m \in DOMAIN movedFrom \ gone |-> movedFrom[m]]
               /\ agedOut' = agedOut \cup gone
               /\ last' = [op |-> "cleanupTable", removed |-> gone]
    /\ UNCHANGED <<numPorts, agingTimeout, currentCycle, clock,
                   framesProcessed, learningEvents, forwardingEvents, floodingEvents>>

\* faulty variant of clearMACTable: the statistics are reset with the table
clearMACTableResets ==
    /\ macTable' = [m \in {} |-> MACTableEntry(0, 0)]
    /\ movedFrom' = [m \in {} |-> 0]
    /\ last' = [op |-> "clearMACTable"]
    /\ framesProcessed' = 0
    /\ learningEvents' = 0
    /\ forwardingEvents' = 0
    /\ floodingEvents' = 0
    /\ UNCHANGED <<numPorts, agingTimeout, currentCycle, clock, agedOut>>

\* void Switch::clearMACTable()
clearMACTable ==
    /\ macTable' = [m \in {} |-> MACTableEntry(0, 0)]
    /\ movedFrom' = [m \in {} |-> 0]
    /\ last' = [op |-> "clearMACTable"]
    /\ UNCHANGED <<numPorts, agingTimeout, currentCycle, clock, agedOut,
                   framesProcessed, learningEvents, forwardingEvents, floodingEvents>>

\* void Switch::advanceCycle()
advanceCycle ==
    /\ currentCycle < MaxCycle
    /\ currentCycle' = currentCycle + 1
    /\ UNCHANGED <<macTable, numPorts, agingTimeout, clock, last, movedFrom, agedOut,
                   framesProcessed, learningEvents, forwardingEvents, floodingEvents>>

\* std::chrono::steady_clock advances between calls and never goes back
Tick ==
    /\ clock < MaxClock
    /\ clock' = clock + 1
    /\ UNCHANGED <<macTable, numPorts, agingTimeout, currentCycle, last, movedFrom, agedOut,
                   framesProcessed, learningEvents, forwardingEvents, floodingEvents>>

Next ==
    \/ \E s \in SourceMACs, d \in DestMACs, p \in PortInputs : processFrame(s, d, p)
    \/ cleanupTable
    \/ clearMACTable
    \/ advanceCycle
    \/ Tick

Spec == Init /\ [][Next]_vars

TypeOK ==
    /\ DOMAIN macTable \subseteq MACs
    /\ framesProcessed \in 0..MaxFrames

----------------------------------------------------------------------------
\* a step is a processFrame call iff it counts a frame; last' then reports it
FrameStep == framesProcessed' = framesProcessed + 1 /\ last'.op = "processFrame"

\* the current state is the one a processFrame call returned in
AfterFrame == last.op = "processFrame"

\* a step is a cleanupTable call (neither the clock nor the cycle moves)
SweepStep == last'.op = "cleanupTable" /\ UNCHANGED <<clock, currentCycle>>

\* a step is a processFrame call, told by its report alone (a stuttering step
\* fits too, and changes nothing)
FrameCall == last'.op = "processFrame" /\ UNCHANGED <<clock, currentCycle>>

\* int getMACTableSize() const { return macTable.size(); }
getMACTableSize(table) == Cardinality(DOMAIN table)

\* the ports a switch with numPorts ports has
ValidPorts == 1..numPorts

----------------------------------------------------------------------------
\* C1 (as claimed): every frame whose non-broadcast destination has no table
\* entry before the call, a frame sent to its own source address included, is
\* flooded to all ports but the arrival port and counts one flooding event.
UnknownDestFloodsAnySource ==
    [][(FrameStep /\ last'.destMAC # BROADCAST
                  /\ last'.destMAC \notin DOMAIN macTable)
        => /\ last'.action = <<"Flood", last'.incomingPort>>
           /\ floodingEvents' = floodingEvents + 1]_vars

\* C1 (amended): a frame whose non-broadcast destination has no table entry
\* before the call and differs from the frame's source address is flooded to
\* all ports but the arrival port and counts one flooding event; a frame sent
\* to its own, not yet learned, source address is dropped and counts none.
UnknownDestFloods ==
    [][(FrameStep /\ last'.destMAC # BROADCAST
                  /\ last'.destMAC \notin DOMAIN macTable)
        => IF last'.destMAC # last'.sourceMAC
           THEN /\ last'.action = <<"Flood", last'.incomingPort>>
                /\ floodingEvents' = floodingEvents + 1
           ELSE /\ last'.action = <<"Drop">>
                /\ floodingEvents' = floodingEvents]_vars

\* an unknown unicast destination was flooded while other addresses were known
UnknownDestFloodsWitness ==
    /\ AfterFrame
    /\ last.destMAC # BROADCAST
    /\ last.destMAC \notin DOMAIN macTable
    /\ last.action = <<"Flood", last.incomingPort>>
    /\ Cardinality(DOMAIN macTable) >= 2
    /\ floodingEvents >= 1

\* C2: a frame whose non-broadcast destination is, after the learning step of
\* the call, recorded at a port p other than the arrival port is delivered to
\* exactly that p; no Deliver action names the arrival port.
KnownUnicastForward ==
    AfterFrame =>
        /\ (/\ last.destMAC # BROADCAST
            /\ last.destMAC \in DOMAIN macTable
            /\ macTable[last.destMAC].port # last.incomingPort)
           => last.action = <<"Deliver", macTable[last.destMAC].port>>
        /\ last.action[1] = "Deliver" => last.action[2] # last.incomingPort

\* a frame was delivered to the port recorded for its destination
KnownUnicastForwardWitness ==
    /\ AfterFrame
    /\ last.destMAC # BROADCAST
    /\ last.destMAC \in DOMAIN macTable
    /\ last.action = <<"Deliver", macTable[last.destMAC].port>>
    /\ forwardingEvents >= 1

\* C3: a frame destined to the broadcast address FF:FF:FF:FF:FF:FF is flooded
\* to all ports but the arrival port whatever the table holds, also when the
\* broadcast address itself has been learned as a source.
BroadcastFloods ==
    (AfterFrame /\ last.destMAC = BROADCAST)
        => last.action = <<"Flood", last.incomingPort>>

\* a broadcast frame was flooded although the table records the broadcast
\* address at another port
BroadcastFloodsWitness ==
    /\ AfterFrame
    /\ last.destMAC = BROADCAST
    /\ last.sourceMAC # BROADCAST
    /\ BROADCAST \in DOMAIN macTable
    /\ macTable[BROADCAST].port # last.incomingPort
    /\ last.action = <<"Flood", last.incomingPort>>

\* C4: a frame whose non-broadcast destination is recorded (before the call,
\* or after its learning step) at the port the frame arrived on is dropped,
\* and the call counts neither a forwarding nor a flooding event.
SameSegmentFilter ==
    [][(/\ FrameStep
        /\ last'.destMAC # BROADCAST
        /\ \/ /\ last'.destMAC \in DOMAIN macTable
              /\ macTable[last'.destMAC].port = last'.incomingPort
           \/ /\ last'.destMAC \in DOMAIN macTable'
              /\ macTable'[last'.destMAC].port = last'.incomingPort)
        => /\ last'.action = <<"Drop">>
           /\ forwardingEvents' = forwardingEvents
           /\ floodingEvents' = floodingEvents]_vars

\* a frame between two stations on the same port was dropped
SameSegmentFilterWitness ==
    /\ AfterFrame
    /\ last.destMAC # BROADCAST
    /\ last.destMAC # last.sourceMAC
    /\ last.destMAC \in DOMAIN macTable
    /\ macTable[last.destMAC].port = last.incomingPort
    /\ last.action = <<"Drop">>

\* C5: when processFrame returns, whatever the action and the prior table,
\* the table maps the frame's source address to the arrival port; the lookup
\* of the same call already sees that entry (a frame sent to its own source
\* address finds it on the arrival port and is dropped).
LearnBeforeDecide ==
    AfterFrame =>
        /\ last.sourceMAC \in DOMAIN macTable
        /\ macTable[last.sourceMAC].port = last.incomingPort
        /\ (last.destMAC = last.sourceMAC /\ last.destMAC # BROADCAST)
           => last.action = <<"Drop">>

\* a first frame of a so far unknown source was flooded and its source learned
LearnBeforeDecideWitness ==
    /\ AfterFrame
    /\ last.outcome = "New"
    /\ last.action[1] = "Flood"
    /\ last.destMAC # BROADCAST
    /\ macTable[last.sourceMAC].port = last.incomingPort

\* C6 (as claimed): once an address A, whichever it is, recorded at p1 has been
\* seen as a source on another port p2, the table records A at p2, and until A
\* is seen as a source on yet another port, evicted or cleared, every frame
\* destined to A that arrives on a port other than p2 is delivered to p2 and
\* not to p1.
DeviceMobilityAnyAddress ==
    [][\A a \in DOMAIN movedFrom :
        /\ a \in DOMAIN macTable
        /\ macTable[a].port # movedFrom[a]
        /\ (/\ FrameStep
            /\ last'.destMAC = a
            /\ last'.sourceMAC # a
            /\ last'.incomingPort # macTable[a].port)
           => /\ last'.action = <<"Deliver", macTable[a].port>>
              /\ last'.action # <<"Deliver", movedFrom[a]>>]_vars

\* C6 (amended): the same for every address A other than the broadcast
\* address; a frame destined to the broadcast address is flooded even when
\* the broadcast address has been learned, and moved, as a source.
DeviceMobility ==
    [][\A a \in DOMAIN movedFrom :
        /\ a \in DOMAIN macTable
        /\ macTable[a].port # movedFrom[a]
        /\ (/\ FrameStep
            /\ last'.destMAC = a
            /\ last'.sourceMAC # a
            /\ last'.incomingPort # macTable[a].port)
           => IF a # BROADCAST
              THEN /\ last'.action = <<"Deliver", macTable[a].port>>
                   /\ last'.action # <<"Deliver", movedFrom[a]>>
              ELSE last'.action = <<"Flood", last'.incomingPort>>]_vars

\* a frame for a station that had moved reached it on its new port, arriving
\* on the port the station had left
DeviceMobilityWitness ==
    /\ AfterFrame
    /\ last.destMAC # BROADCAST
    /\ last.destMAC # last.sourceMAC
    /\ last.destMAC \in DOMAIN movedFrom
    /\ last.incomingPort = movedFrom[last.destMAC]
    /\ last.action = <<"Deliver", macTable[last.destMAC].port>>

\* C7: a processFrame call whose arrival port lies outside [1, portCount]
\* fails with InvalidPort and leaves the address table as it was.
InvalidPortRejected ==
    [][(FrameStep /\ last'.incomingPort \notin ValidPorts)
        => /\ last'.action = <<"InvalidPort">>
           /\ macTable' = macTable]_vars

\* C8: in every reachable state every table entry has a port within
\* [1, portCount].
PortRangeInvariant ==
    \A m \in DOMAIN macTable : macTable[m].port \in ValidPorts

\* C9: a processFrame call adds one to learningEvents when the source was
\* absent (New) or present at another port (Moved), and nothing when it was
\* present at the same port (Refreshed).
LearningEventsNewOrMoved ==
    [][FrameStep
        => learningEvents' = learningEvents +
              (IF last'.outcome \in {"New", "Moved"} THEN 1 ELSE 0)]_vars

AgingDisabledNoOp ==
    [][(SweepStep /\ agingTimeout <= 0)
        => /\ macTable' = macTable
           /\ last'.removed = {}
           /\ UNCHANGED <<framesProcessed, learningEvents,
                          forwardingEvents, floodingEvents>>]_vars

\* a sweep with aging disabled has left an entry two seconds old in the table
AgingDisabledNoOpWitness ==
    /\ last.op = "cleanupTable"
    /\ agingTimeout <= 0
    /\ \E m \in DOMAIN macTable :
          Elapsed(clock, macTable[m].timestamp) >= 2

\* C12: an address A evicted by a sweep is absent from the table; while it is
\* absent, a unicast frame destined to A from another source is flooded (not
\* delivered to A's former port) and leaves A absent, and the next frame with
\* source A creates the entry anew (outcome New) at the arrival port.
EvictionThenRelearn ==
    [][/\ SweepStep => last'.removed \cap DOMAIN macTable' = {}
       /\ \A a \in agedOut :
            /\ a \notin DOMAIN macTable
            /\ (FrameStep /\ last'.destMAC = a /\ last'.sourceMAC # a
                          /\ a # BROADCAST)
               => /\ last'.action = <<"Flood", last'.incomingPort>>
                  /\ a \notin DOMAIN macTable'
            /\ (FrameStep /\ last'.sourceMAC = a)
               => /\ last'.outcome = "New"
                  /\ a \in DOMAIN macTable'
                  /\ macTable'[a] = MACTableEntry(last'.incomingPort, clock)]_vars

\* a frame for an evicted station, sent by another one, was flooded
EvictionThenRelearnWitness ==
    /\ AfterFrame
    /\ last.destMAC \in agedOut
    /\ last.destMAC # BROADCAST
    /\ last.destMAC # last.sourceMAC
    /\ last.action = <<"Flood", last.incomingPort>>

\* C13: a processFrame call destroys no entry: every address in the table
\* before the call is in it afterwards; an address leaves the table only in
\* a cleanupTable or clearMACTable step.
ForwardingNeverDestroys ==
    [][/\ FrameStep => DOMAIN macTable \subseteq DOMAIN macTable'
       /\ ~(DOMAIN macTable \subseteq DOMAIN macTable')
            => /\ last'.op \in {"cleanupTable", "clearMACTable"}
               /\ UNCHANGED framesProcessed]_vars

\* a frame of a new source was processed and the two entries learned before
\* it are still there
ForwardingNeverDestroysWitness ==
    /\ AfterFrame
    /\ last.outcome = "New"
    /\ Cardinality(DOMAIN macTable) = 3

\* C14: every processFrame call adds exactly one to framesProcessed, one to
\* forwardingEvents iff its action is Deliver and one to floodingEvents iff
\* its action is Flood (broadcast or unknown unicast); no call adds to both.
OutcomeCounting ==
    [][(FrameCall /\ vars' # vars)
        => /\ framesProcessed' = framesProcessed + 1
           /\ forwardingEvents' = forwardingEvents +
                 (IF last'.action[1] = "Deliver" THEN 1 ELSE 0)
           /\ floodingEvents' = floodingEvents +
                 (IF last'.action[1] = "Flood" THEN 1 ELSE 0)
           /\ ~(forwardingEvents' # forwardingEvents
                /\ floodingEvents' # floodingEvents)]_vars

\* a dropped frame has left both counters, each already counted once, alone
OutcomeCountingWitness ==
    /\ AfterFrame
    /\ last.action = <<"Drop">>
    /\ framesProcessed = 3
    /\ forwardingEvents = 1
    /\ floodingEvents = 1

\* C15: over any sequence of processFrame, cleanupTable, clearMACTable and
\* advanceCycle calls none of framesProcessed, learningEvents,
\* forwardingEvents, floodingEvents ever decreases; a step that takes entries
\* out of the table (aging or clearing) leaves all four as they are.
CountersMonotonic ==
    [][/\ framesProcessed' >= framesProcessed
       /\ learningEvents' >= learningEvents
       /\ forwardingEvents' >= forwardingEvents
       /\ floodingEvents' >= floodingEvents
       /\ (last'.op \in {"cleanupTable", "clearMACTable"} /\ last' # last)
            => UNCHANGED <<framesProcessed, learningEvents,
                           forwardingEvents, floodingEvents>>
       /\ ~(DOMAIN macTable \subseteq DOMAIN macTable')
            => UNCHANGED <<framesProcessed, learningEvents,
                           forwardingEvents, floodingEvents>>]_vars

\* the table has been cleared and every counter still holds its count
CountersMonotonicWitness ==
    /\ last.op = "clearMACTable"
    /\ macTable = [m \in {} |-> MACTableEntry(0, 0)]
    /\ framesProcessed = 3
    /\ learningEvents >= 1
    /\ forwardingEvents >= 1
    /\ floodingEvents >= 1
    /\ currentCycle >= 1

\* the canonical (upper-case) spelling of a textual address; the code has no
\* such step, the claim below is stated with it
Canonical(mac) ==
    IF mac = "aa:aa:aa:aa:aa:aa" THEN "AA:AA:AA:AA:AA:AA" ELSE mac

\* C16: addresses that differ only in letter case are one address: the table
\* holds one entry for them, not two, and a frame whose non-broadcast
\* destination is, in either case, an address learned as a source is
\* forwarded or filtered by that entry, not flooded as unknown.
CaseInsensitiveAddresses ==
    /\ \A m1, m2 \in DOMAIN macTable :
          Canonical(m1) = Canonical(m2) => m1 = m2
    /\ AfterFrame =>
          \A m \in DOMAIN macTable :
             (Canonical(m) = Canonical(last.destMAC)
                /\ Canonical(last.destMAC) # BROADCAST)
             => last.action = (IF macTable[m].port = last.incomingPort
                               THEN <<"Drop">>
                               ELSE <<"Deliver", macTable[m].port>>)

\* C17: a processFrame call with source A creates or updates A's entry only:
\* every other address B, the frame's destination included, is in the table
\* after the call iff it was before, with the same port and lastSeen.
MigrationIsolation ==
    [][FrameStep
        => \A b \in MACs \ {last'.sourceMAC} :
             /\ (b \in DOMAIN macTable') = (b \in DOMAIN macTable)
             /\ b \in DOMAIN macTable => macTable'[b] = macTable[b]]_vars

\* a station has moved while the frame's destination, learned earlier, kept
\* its port and its older timestamp
MigrationIsolationWitness ==
    /\ AfterFrame
    /\ last.outcome = "Moved"
    /\ last.destMAC # last.sourceMAC
    /\ last.destMAC \in DOMAIN macTable
    /\ macTable[last.destMAC].timestamp < macTable[last.sourceMAC].timestamp

\* C18: a processFrame call makes the table one entry larger when the source
\* address (the string as given) is absent and leaves its size alone when
\* the source is present, on the same port or another; learning an address
\* again on its port at a later time leaves the size alone and sets the
\* entry's lastSeen to that time.
LearnSizeEffect ==
    [][FrameStep
        => /\ getMACTableSize(macTable') = getMACTableSize(macTable) +
                 (IF last'.sourceMAC \in DOMAIN macTable THEN 0 ELSE 1)
           /\ (/\ last'.sourceMAC \in DOMAIN macTable
               /\ macTable[last'.sourceMAC].port = last'.incomingPort)
              => /\ getMACTableSize(macTable') = getMACTableSize(macTable)
                 /\ macTable'[last'.sourceMAC] =
                       MACTableEntry(last'.incomingPort, clock)]_vars

\* an address was learned again on its port later than the other entry of the
\* table was written, and the table still has its two entries
LearnSizeEffectWitness ==
    /\ AfterFrame
    /\ last.outcome = "Refreshed"
    /\ getMACTableSize(macTable) = 2
    /\ framesProcessed = 3
    /\ macTable[last.sourceMAC].timestamp = clock
    /\ \E m \in DOMAIN macTable : macTable[m].timestamp < clock

\* C19: the clock never going back, the lastSeen of an address never
\* decreases from one state to the next, and a learn of a known source, on
\* another port (Moved) as on the same (Refreshed), sets its lastSeen to the
\* time of the call.
LastSeenMonotonic ==
    [][/\ \A a \in DOMAIN macTable \cap DOMAIN macTable' :
            macTable'[a].timestamp >= macTable[a].timestamp
       /\ (FrameStep /\ last'.outcome \in {"Moved", "Refreshed"})
            => /\ macTable'[last'.sourceMAC].timestamp = clock
               /\ macTable'[last'.sourceMAC].timestamp
                     >= macTable[last'.sourceMAC].timestamp]_vars

\* a station has moved some time after another entry was written and carries
\* the time of the move
LastSeenMonotonicWitness ==
    /\ AfterFrame
    /\ last.outcome = "Moved"
    /\ last.sourceMAC \in DOMAIN movedFrom
    /\ macTable[last.sourceMAC].timestamp = clock
    /\ \E m \in DOMAIN macTable : macTable[m].timestamp < clock

Retimed(table) ==
    {[m \in DOMAIN table |-> MACTableEntry(table[m].port, ts[m])] :
        ts \in [DOMAIN table -> {0, MaxClock}]}

\* C21: the forwarding decision does not depend on the age of an entry: the
\* action of a frame is the one decided on every table with the same
\* addresses and ports whose entries are each as old or as new as can be, so
\* that two tables with the same address-to-port mapping and different
\* lastSeen values give the same action for the same frame and port; and a
\* known unicast destination is used to Deliver or Drop even when its age
\* exceeds the aging timeout and no sweep has removed it yet.
DecisionIgnoresAge ==
    AfterFrame
        => /\ \A t \in Retimed(macTable) :
                Decide(t, last.destMAC, last.incomingPort) = last.action
           /\ (last.destMAC # BROADCAST /\ last.destMAC \in DOMAIN macTable)
                => last.action =
                      IF macTable[last.destMAC].port = last.incomingPort
                      THEN <<"Drop">>
                      ELSE <<"Deliver", macTable[last.destMAC].port>>

\* a frame has just been delivered to a destination whose entry is older
\* than the aging timeout of a switch with aging enabled
DecisionIgnoresAgeWitness ==
    /\ AfterFrame
    /\ agingTimeout > 0
    /\ last.action[1] = "Deliver"
    /\ macTable[last.sourceMAC].timestamp = clock
    /\ Elapsed(clock, macTable[last.destMAC].timestamp) > agingTimeout

\* the order of the table size and the statistics counters
CounterOrder ==
    /\ getMACTableSize(macTable) <= learningEvents
    /\ learningEvents <= framesProcessed
    /\ forwardingEvents + floodingEvents <= framesProcessed

\* a call of cleanupTable or clearMACTable
ShrinkStep ==
    /\ last'.op \in {"cleanupTable", "clearMACTable"}
    /\ UNCHANGED <<clock, currentCycle>>

\* C22: in every reachable state, table size <= learningEvents <=
\* framesProcessed and forwardingEvents + floodingEvents <= framesProcessed;
\* an aging sweep and clearMACTable never grow the table and leave the four
\* counters as they are, so the bounds hold after them.
CounterBounds ==
    /\ []CounterOrder
    /\ [][ShrinkStep
            => /\ DOMAIN macTable' \subseteq DOMAIN macTable
               /\ UNCHANGED <<framesProcessed, learningEvents,
                              forwardingEvents, floodingEvents>>
               /\ CounterOrder']_vars

\* clearMACTable has emptied the table after a sweep had evicted an address;
\* two addresses were learned in three frames, one of them dropped
CounterBoundsWitness ==
    /\ last.op = "clearMACTable"
    /\ agedOut # {}
    /\ getMACTableSize(macTable) = 0
    /\ learningEvents = 2
    /\ framesProcessed = 3
    /\ forwardingEvents + floodingEvents = 2
====
